---- MODULE Spec2Model ----
(***************************************************************************)
(* count-primes (src/primes.c): powmod, is_strong_probable_prime, is_prime *)
(* and the counting loop of main, as one state machine.  Every function    *)
(* has a frame (a record of its parameters and locals), pc is the line the *)
(* program is about to execute and stack holds the return addresses.       *)
(*                                                                         *)
(* Word width.  The source computes in u32 (32 bits) and widens products   *)
(* to u64 (64 bits).  TLC's integers are 32-bit, so the model keeps the    *)
(* two widths in the source's ratio but scales them: a u32 has WordBits    *)
(* bits and a u64 has 2 * WordBits bits.  LO and HI, compile-time literals *)
(* in the source, are the inputs lo and hi of the model.                   *)
(***************************************************************************)
EXTENDS Integers, Sequences, FiniteSets, TLC

VARIABLES
  input,      \* the arguments of the outermost call (main: the range LO, HI)
  pc,         \* the line about to be executed
  stack,      \* return addresses, innermost first
  ret,        \* the value the last return passed back
  main, is_prime, is_strong_probable_prime, powmod,   \* the frames
  cnt,        \* history: the primes counted so far, as an unbounded integer
  ncalls      \* history: the calls main has made to is_prime

vars == <<input, pc, stack, ret,
          main, is_prime, is_strong_probable_prime, powmod,
          cnt, ncalls>>

frames == <<main, is_prime, is_strong_probable_prime, powmod>>
history == <<cnt, ncalls>>

\* ------------------------------------------------------------------ bounds
\* bits of a u32 in the model (a u64 has twice as many)
WordBits == 13
\* the driver's small ranges: lo in 0..MaxLo, hi in 0..MaxHi
MaxLo == 4
MaxHi == 9
\* is_strong_probable_prime called on its own: base a prime <= MaxSppBase,
\* n in 0..MaxSppN
MaxSppBase == 13
MaxSppN == 300
\* ... and the MaxSppTop + 1 largest words as n
MaxSppTop == 20
\* powmod called on its own: base in 0..MaxPmBase, exponent in
\* 0..MaxPmExp, m in 1..MaxPmMod (and the largest word for each)
MaxPmBase == 5
MaxPmExp == 12
MaxPmMod == 6

\* ------------------------------------------------------------- arithmetic
U32Mod == 2 ^ WordBits
U32Max == U32Mod - 1
U64Mod == U32Mod * U32Mod
\* bits of an unsigned long, the operand type of __builtin_ctzl
LongBits == 2 * WordBits

\* conversion of a value to u32
ToU32(x) == x % U32Mod

\* a C truth value
B(cond) == IF cond THEN 1 ELSE 0

\* (u64)a * b : the product, computed in 64 bits
Mul64_narrow(a, b) == (a * b) % U32Mod
Mul64(a, b) == (a * b) % U64Mod

\* count += b on the u32 accumulator
AddU32_narrow(c, b) == (c + b) % 16
AddU32(c, b) == (c + b) % U32Mod

\* number of trailing zero bits of x, x > 0
RECURSIVE Ctz(_)
Ctz(x) == IF x % 2 = 1 THEN 0 ELSE 1 + Ctz(x \div 2)

\* what __builtin_ctzl may return: undefined for 0
CtzOutcomes(x) == IF x = 0 THEN 0..LongBits ELSE {Ctz(x)}

\* the operand of the trailing-zero count
CtzArg_n(n) == n
CtzArg(n) == n - 1

\* the arguments of the call powmod(base, (n - 1) >> e, n)
PowmodArgs_swapped(base, n, e) ==
  [base |-> base, exponent |-> n, m |-> (n - 1) \div (2 ^ e)]
PowmodArgs(base, n, e) ==
  [base |-> base, exponent |-> (n - 1) \div (2 ^ e), m |-> n]

\* trial division runs over the odd numbers TrialFirst..TrialLast
TrialFirst == 3
TrialLast == 61
\* the witness bases, in the order they are tried
Witness1 == 2
Witness2 == 7
Witness3 == 61

\* ------------------------------------------------------------------ frames
NoMain == [count |-> 0, i |-> 0]
NoIsPrime == [n |-> 0, i |-> 0]
NoSpp == [base |-> 0, n |-> 0, e |-> 0, power |-> 0, i |-> 0]
NoPowmod == [base |-> 0, exponent |-> 0, m |-> 0, power |-> 0, result |-> 0]

\* return v to the caller, or finish when there is none
Return(v) ==
  /\ ret' = v
  /\ IF stack = <<>>
       THEN pc' = "done" /\ stack' = stack
       ELSE pc' = Head(stack) /\ stack' = Tail(stack)

\* a division or remainder by zero: the process is killed
Trap ==
  /\ pc' = "sigfpe"
  /\ UNCHANGED <<stack, ret>>

\* ------------------------------------------------------------------ powmod
\* lines 14-15: power = base % m; result = 1
Powmod14 ==
  /\ pc = "pm14"
  /\ IF powmod.m = 0
       THEN Trap /\ UNCHANGED powmod
       ELSE /\ powmod' = [powmod EXCEPT !.power = ToU32(powmod.base % powmod.m),
                                        !.result = 1]
            /\ pc' = "pm16"
            /\ UNCHANGED <<stack, ret>>
  /\ UNCHANGED <<input, main, is_prime, is_strong_probable_prime, history>>

\* lines 16-24: one turn of the while loop, or return result
Powmod16 ==
  /\ pc = "pm16"
  /\ IF powmod.exponent # 0
       THEN IF powmod.m = 0
              THEN Trap /\ UNCHANGED powmod
              ELSE /\ powmod' =
                      [powmod EXCEPT
                         !.result = IF powmod.exponent % 2 = 1
                                      THEN ToU32(Mul64(powmod.result, powmod.power) % powmod.m)
                                      ELSE powmod.result,
                         !.power = ToU32(Mul64(powmod.power, powmod.power) % powmod.m),
                         !.exponent = powmod.exponent \div 2]
                   /\ pc' = "pm16"
                   /\ UNCHANGED <<stack, ret>>
       ELSE Return(powmod.result) /\ UNCHANGED powmod
  /\ UNCHANGED <<input, main, is_prime, is_strong_probable_prime, history>>

\* ------------------------------------------------ is_strong_probable_prime
\* line 45: the verdict when base divides n
SppDivisibleVerdict_false(n, base) == 0
SppDivisibleVerdict(n, base) == B(n = base)

\* line 60: the number of turns of the squaring loop
SppLoopBound_short(e) == e - 1
SppLoopBound(e) == e

\* lines 30-45: the early returns
Spp30 ==
  /\ pc = "spp30"
  /\ LET f == is_strong_probable_prime
     IN  IF f.n <= 2 THEN Return(B(f.n = 2))
         ELSE IF f.n % 2 = 0 THEN Return(0)
         ELSE IF f.base = 0 THEN Trap
         ELSE IF f.n % f.base = 0 THEN Return(SppDivisibleVerdict(f.n, f.base))
         ELSE pc' = "spp48" /\ UNCHANGED <<stack, ret>>
  /\ UNCHANGED <<input, frames, history>>

\* lines 48-51: e = __builtin_ctzl(n - 1); call powmod(base, (n - 1) >> e, n)
Spp48 ==
  /\ pc = "spp48"
  /\ LET f == is_strong_probable_prime
     IN  \E e \in CtzOutcomes(CtzArg(f.n)) :
           LET a == PowmodArgs(f.base, f.n, e)
           IN  /\ is_strong_probable_prime' = [f EXCEPT !.e = e]
               /\ powmod' = [NoPowmod EXCEPT !.base = a.base,
                                             !.exponent = a.exponent,
                                             !.m = a.m]
  /\ stack' = <<"spp51r">> \o stack
  /\ pc' = "pm14"
  /\ UNCHANGED <<input, ret, main, is_prime, history>>

\* lines 51-55: power = the value powmod returned; a 1 stays 1
Spp51r ==
  /\ pc = "spp51r"
  /\ IF ret = 1
       THEN Return(1) /\ UNCHANGED is_strong_probable_prime
       ELSE /\ is_strong_probable_prime' =
                 [is_strong_probable_prime EXCEPT !.power = ret, !.i = 0]
            /\ pc' = "spp60"
            /\ UNCHANGED <<stack, ret>>
  /\ UNCHANGED <<input, main, is_prime, powmod, history>>

\* lines 60-67: one turn of the for loop, or return false
Spp60 ==
  /\ pc = "spp60"
  /\ LET f == is_strong_probable_prime
     IN  IF f.i < SppLoopBound(f.e)
           THEN IF f.power = f.n - 1
                  THEN Return(1) /\ UNCHANGED is_strong_probable_prime
                  ELSE IF f.n = 0
                    THEN Trap /\ UNCHANGED is_strong_probable_prime
                    ELSE /\ is_strong_probable_prime' =
                              [f EXCEPT !.power = ToU32(Mul64(f.power, f.power) % f.n),
                                        !.i = f.i + 1]
                         /\ pc' = "spp60"
                         /\ UNCHANGED <<stack, ret>>
           ELSE Return(0) /\ UNCHANGED is_strong_probable_prime
  /\ UNCHANGED <<input, main, is_prime, powmod, history>>

\* n is a prime number
IsPrimeNumber(n) == n > 1 /\ \A d \in 2..(n - 1) : n % d # 0

\* is_strong_probable_prime called on its own, base a prime
InitSpp ==
  /\ input \in [base : {a \in 2..MaxSppBase : IsPrimeNumber(a)}
                         \cup {Witness1, Witness2, Witness3},
                n : (0..MaxSppN) \cup ((U32Max - MaxSppTop)..U32Max)]
  /\ pc = "spp30"
  /\ stack = <<>>
  /\ ret = 0
  /\ main = NoMain
  /\ is_prime = NoIsPrime
  /\ is_strong_probable_prime = [NoSpp EXCEPT !.base = input.base, !.n = input.n]
  /\ powmod = NoPowmod
  /\ cnt = 0
  /\ ncalls = 0

NextSpp == Spp30 \/ Spp48 \/ Spp51r \/ Spp60 \/ Powmod14 \/ Powmod16

SpecSpp == InitSpp /\ [][NextSpp]_vars

\* ---------------------------------------------------------------- is_prime
\* call is_strong_probable_prime(base, n), to come back at label
CallSpp(base, n, label) ==
  /\ is_strong_probable_prime' = [NoSpp EXCEPT !.base = base, !.n = n]
  /\ stack' = <<label>> \o stack
  /\ pc' = "spp30"
  /\ UNCHANGED <<ret, is_prime>>

\* is_prime returns v
IsPrimeReturn(v) ==
  /\ Return(v)
  /\ UNCHANGED <<is_prime, is_strong_probable_prime>>

\* lines 72-80: 0, 1, 2 and the even numbers; i = 3
IsPrime72 ==
  /\ pc = "ip72"
  /\ IF is_prime.n <= 2 THEN IsPrimeReturn(B(is_prime.n = 2))
     ELSE IF is_prime.n % 2 = 0 THEN IsPrimeReturn(0)
     ELSE /\ is_prime' = [is_prime EXCEPT !.i = TrialFirst]
          /\ pc' = "ip80"
          /\ UNCHANGED <<stack, ret, is_strong_probable_prime>>
  /\ UNCHANGED <<input, main, powmod, cnt, ncalls>>

\* lines 80-89: one turn of the trial division, or the first witness
IsPrime80 ==
  /\ pc = "ip80"
  /\ IF is_prime.i <= TrialLast
       THEN IF is_prime.n = is_prime.i THEN IsPrimeReturn(1)
            ELSE IF is_prime.i = 0
              THEN Trap /\ UNCHANGED <<is_prime, is_strong_probable_prime>>
            ELSE IF is_prime.n % is_prime.i = 0 THEN IsPrimeReturn(0)
            ELSE /\ is_prime' = [is_prime EXCEPT !.i = ToU32(is_prime.i + 2)]
                 /\ pc' = "ip80"
                 /\ UNCHANGED <<stack, ret, is_strong_probable_prime>>
       ELSE CallSpp(Witness1, is_prime.n, "ip89r")
  /\ UNCHANGED <<input, main, powmod, cnt, ncalls>>

\* lines 89-90: && after the first witness
IsPrime89r ==
  /\ pc = "ip89r"
  /\ IF ret = 0 THEN IsPrimeReturn(0)
     ELSE CallSpp(Witness2, is_prime.n, "ip90r")
  /\ UNCHANGED <<input, main, powmod, cnt, ncalls>>

\* lines 90-91: && after the second witness
IsPrime90r ==
  /\ pc = "ip90r"
  /\ IF ret = 0 THEN IsPrimeReturn(0)
     ELSE CallSpp(Witness3, is_prime.n, "ip91r")
  /\ UNCHANGED <<input, main, powmod, cnt, ncalls>>

\* line 91: the third witness decides
IsPrime91r ==
  /\ pc = "ip91r"
  /\ IsPrimeReturn(ret)
  /\ UNCHANGED <<input, main, powmod, cnt, ncalls>>

\* -------------------------------------------------------------------- main
LO == input.lo
HI == input.hi

\* line 95: the guard of the term for HI
MainInitGuard_always(l, h) == TRUE
MainInitGuard(l, h) == l <= h

\* line 96: the first value of i
MainLoopFirst_skip(l) == l + 1
MainLoopFirst(l) == l

\* line 96: the loop condition
MainLoopCond_closed(i, h) == i <= h
MainLoopCond(i, h) == i < h

\* call is_prime(n) from main, to come back at label
CallIsPrime(n, label) ==
  /\ is_prime' = [NoIsPrime EXCEPT !.n = n]
  /\ stack' = <<label>> \o stack
  /\ pc' = "ip72"
  /\ ncalls' = ncalls + 1
  /\ UNCHANGED <<ret, main, cnt>>

\* line 95: count = LO <= HI && is_prime(HI), && not evaluating
\* is_prime(HI) when LO > HI; then line 96: i = LO
Main95 ==
  /\ pc = "main95"
  /\ IF MainInitGuard(LO, HI)
       THEN CallIsPrime(HI, "main95r")
       ELSE /\ main' = [count |-> 0, i |-> MainLoopFirst(LO)]
            /\ cnt' = 0
            /\ pc' = "main96"
            /\ UNCHANGED <<stack, ret, is_prime, ncalls>>
  /\ UNCHANGED <<input, is_strong_probable_prime, powmod>>

\* line 95, is_prime(HI) returned: count = its value; line 96: i = LO
Main95r ==
  /\ pc = "main95r"
  /\ main' = [count |-> ret, i |-> MainLoopFirst(LO)]
  /\ cnt' = ret
  /\ pc' = "main96"
  /\ UNCHANGED <<input, stack, ret, is_prime, is_strong_probable_prime, powmod,
                 ncalls>>

\* lines 96-97: i < HI, then call is_prime(i); or leave the loop
Main96 ==
  /\ pc = "main96"
  /\ IF MainLoopCond(main.i, HI)
       THEN CallIsPrime(main.i, "main97r")
       ELSE /\ pc' = "main99"
            /\ UNCHANGED <<stack, ret, main, is_prime, cnt, ncalls>>
  /\ UNCHANGED <<input, is_strong_probable_prime, powmod>>

\* line 97, is_prime(i) returned: count += its value; line 96: ++i
Main97r ==
  /\ pc = "main97r"
  /\ main' = [count |-> AddU32(main.count, ret), i |-> ToU32(main.i + 1)]
  /\ cnt' = cnt + ret
  /\ pc' = "main96"
  /\ UNCHANGED <<input, stack, ret, is_prime, is_strong_probable_prime, powmod,
                 ncalls>>

\* lines 99-100: print count, return 0
Main99 ==
  /\ pc = "main99"
  /\ pc' = "done"
  /\ ret' = 0
  /\ UNCHANGED <<input, stack, frames, history>>

\* the program: small ranges, lo > hi among them, and the whole word range
Init ==
  /\ input \in [lo : 0..MaxLo, hi : 0..MaxHi] \cup {[lo |-> 0, hi |-> U32Max]}
  /\ pc = "main95"
  /\ stack = <<>>
  /\ ret = 0
  /\ main = NoMain
  /\ is_prime = NoIsPrime
  /\ is_strong_probable_prime = NoSpp
  /\ powmod = NoPowmod
  /\ cnt = 0
  /\ ncalls = 0

Next ==
  \/ Main95 \/ Main95r \/ Main96 \/ Main97r \/ Main99
  \/ IsPrime72 \/ IsPrime80 \/ IsPrime89r \/ IsPrime90r \/ IsPrime91r
  \/ Spp30 \/ Spp48 \/ Spp51r \/ Spp60
  \/ Powmod14 \/ Powmod16

Spec == Init /\ [][Next]_vars

\* powmod called on its own
InitPowmod ==
  /\ input \in [base : (0..MaxPmBase) \cup {U32Max},
                exponent : (0..MaxPmExp) \cup {U32Max},
                m : (1..MaxPmMod) \cup {U32Max}]
  /\ pc = "pm14"
  /\ stack = <<>>
  /\ ret = 0
  /\ main = NoMain
  /\ is_prime = NoIsPrime
  /\ is_strong_probable_prime = NoSpp
  /\ powmod = [NoPowmod EXCEPT !.base = input.base,
                               !.exponent = input.exponent,
                               !.m = input.m]
  /\ cnt = 0
  /\ ncalls = 0

NextPowmod == Powmod14 \/ Powmod16

SpecPowmod == InitPowmod /\ [][NextPowmod]_vars

\* base^exponent mod m by the laws of powers: b^0 = 1, b^1 = b and
\* b^(i + j) = b^i * b^j
RECURSIVE ModPow(_, _, _)
ModPow(b, k, m) ==
  IF k = 0 THEN 1 % m
  ELSE IF k = 1 THEN b % m
  ELSE (ModPow(b, k \div 2, m) * ModPow(b, k - (k \div 2), m)) % m

\* C4: for every base, exponent and modulus m > 0 (m = 1 and exponent = 0
\* included) powmod returns base^exponent mod m.
C4_PowmodIsModPow ==
  pc = "done" => ret = ModPow(input.base, input.exponent, input.m)

\* the strong-pseudoprime criterion of n to base a, as the claim writes it
StrongCriterion(a, n) ==
  LET e == CHOOSE k \in 0..WordBits :
             (n - 1) % (2 ^ k) = 0 /\ ((n - 1) \div (2 ^ k)) % 2 = 1
      d == (n - 1) \div (2 ^ e)
  IN  \/ ModPow(a, d, n) = 1
      \/ \E r \in 0..(e - 1) : ModPow(a, d * (2 ^ r), n) = n - 1

\* C5: for a prime base a, is_strong_probable_prime(a, n) returns n = 2
\* when n <= 2, false when n > 2 is even, n = a when the odd n is a
\* multiple of a, and otherwise whether a^d = 1 or a^(d 2^r) = n - 1
\* (mod n) for some r < e, where n - 1 = d 2^e with d odd.
C5_SppContract ==
  pc = "done" =>
    LET a == input.base
        n == input.n
    IN  ret = B(IF n <= 2 THEN n = 2
                ELSE IF n % 2 = 0 THEN FALSE
                ELSE IF n % a = 0 THEN n = a
                ELSE StrongCriterion(a, n))

\* a run of C5 that went through the squaring loop to its end
C5_Witness ==
  /\ pc = "done"
  /\ input.n > 2 /\ input.n % 2 = 1 /\ input.n % input.base # 0
  /\ is_strong_probable_prime.i = is_strong_probable_prime.e
  /\ is_strong_probable_prime.e >= 2
  /\ ret = 0

\* C4, in the cases the program itself uses: a modulus above 1, or an
\* exponent above 0
PowmodIsModPowAboveOne ==
  (pc = "done" /\ (input.m > 1 \/ input.exponent > 0)) =>
    ret = ModPow(input.base, input.exponent, input.m)

\* C1: is_prime(n) returns true exactly when n is a prime number, for every
\* n of the word range (0, 1, 2, the even n, the n <= 61 and the multiples
\* of the witness bases among them).
C1_IsPrimeExact ==
  pc \in {"main95r", "main97r"} => (ret = 1 <=> IsPrimeNumber(is_prime.n))

\* is_prime has rejected a composite that no trial divisor divides
C1_Witness ==
  /\ pc = "main97r"
  /\ ret = 0
  /\ is_prime.i > TrialLast
  /\ ~IsPrimeNumber(is_prime.n)

\* the number of primes among a..b
PrimesIn(a, b) == Cardinality({n \in a..b : IsPrimeNumber(n)})

\* C2: when the loop of main has finished, count is the number of n in
\* [lo, hi) for which is_prime(n) is true (by C1: that are prime).
C2_HalfOpenCount ==
  pc = "done" => main.count = PrimesIn(LO, HI - 1)

\* C2 as amended: ... plus 1 when lo <= hi and hi is prime.
C2_CountWithHi ==
  pc = "done" =>
    main.count = PrimesIn(LO, HI - 1) + B(LO <= HI /\ IsPrimeNumber(HI))

\* a finished run over a range with primes inside and a prime upper bound
C2_Witness ==
  /\ pc = "done"
  /\ LO < HI
  /\ IsPrimeNumber(HI)
  /\ PrimesIn(LO, HI - 1) >= 2

\* C3: with lo > hi the term for hi contributes 0 (is_prime is not even
\* called), the loop body never runs, and the count is 0.
C3_EmptyRange ==
  LO > HI => (main.count = 0 /\ ncalls = 0 /\ pc \in {"main95", "main96", "main99", "done"})

\* a finished run with lo > hi and hi prime
C3_Witness ==
  /\ pc = "done"
  /\ LO > HI
  /\ IsPrimeNumber(HI)

\* C6: with lo <= hi main tests hi first and then lo, lo + 1, ..., hi - 1,
\* each once, and ends with the number of primes of [lo, hi) plus 1 when
\* hi is prime.
C6_ClosedRangeOnce ==
  LO <= HI =>
    /\ pc = "main95r" => (is_prime.n = HI /\ ncalls = 1)
    /\ pc = "main97r" => /\ is_prime.n = main.i
                         /\ LO <= main.i /\ main.i < HI
                         /\ ncalls = 2 + (main.i - LO)
    /\ pc = "done" => /\ main.i = HI
                      /\ ncalls = (HI - LO) + 1
                      /\ main.count = PrimesIn(LO, HI - 1) + B(IsPrimeNumber(HI))

\* a finished run whose two boundaries are both prime
C6_Witness ==
  /\ pc = "done"
  /\ LO < HI
  /\ IsPrimeNumber(LO)
  /\ IsPrimeNumber(HI)

\* C7: while is_prime runs, every product result * power and power * power
\* fits the 64-bit type it is computed in (no wrap), and the running values
\* power and result stay in [0, n).
C7_NoProductWraps ==
  /\ pc = "pm16" =>
       /\ powmod.power < powmod.m /\ powmod.result < powmod.m
       /\ powmod.exponent # 0 =>
            /\ powmod.power * powmod.power < U64Mod
            /\ Mul64(powmod.power, powmod.power) = powmod.power * powmod.power
            /\ powmod.exponent % 2 = 1 =>
                 /\ powmod.result * powmod.power < U64Mod
                 /\ Mul64(powmod.result, powmod.power) = powmod.result * powmod.power
  /\ pc = "spp51r" => ret < is_strong_probable_prime.n
  /\ pc = "spp60" =>
       LET f == is_strong_probable_prime
       IN  /\ f.power < f.n
           /\ (f.i < SppLoopBound(f.e) /\ f.power # f.n - 1) =>
                /\ f.power * f.power < U64Mod
                /\ Mul64(f.power, f.power) = f.power * f.power

\* a squaring whose product needs more than the 32 bits of its operands
C7_Witness ==
  /\ pc = "spp60"
  /\ is_strong_probable_prime.i < is_strong_probable_prime.e
  /\ is_strong_probable_prime.power # is_strong_probable_prime.n - 1
  /\ is_strong_probable_prime.power * is_strong_probable_prime.power > U32Max

\* C8: at the decomposition the trailing-zero count is taken of a non-zero
\* n - 1, and e >= 1, d is odd and d * 2^e = n - 1 for the exponent d that
\* is passed to powmod.
C8_Decomposition ==
  /\ pc = "spp48" => CtzArg(is_strong_probable_prime.n) # 0
  /\ (pc = "pm14" /\ stack # <<>>) =>
       /\ Head(stack) = "spp51r"
       /\ is_strong_probable_prime.e >= 1
       /\ powmod.exponent % 2 = 1
       /\ powmod.exponent * (2 ^ is_strong_probable_prime.e)
            = is_strong_probable_prime.n - 1
       /\ powmod.m = is_strong_probable_prime.n

\* a decomposition with e >= 3
C8_Witness ==
  /\ pc = "pm14"
  /\ stack # <<>>
  /\ is_strong_probable_prime.e >= 3

\* the divisors of the % operations the next step evaluates
PendingDivisors ==
  LET f == is_strong_probable_prime
  IN  (IF pc = "pm14" \/ (pc = "pm16" /\ powmod.exponent # 0)
         THEN {powmod.m} ELSE {})
      \cup (IF pc = "spp30" /\ f.n > 2 /\ f.n % 2 = 1
              THEN {f.base} ELSE {})
      \cup (IF pc = "spp60" /\ f.i < SppLoopBound(f.e) /\ f.power # f.n - 1
              THEN {f.n} ELSE {})
      \cup (IF pc = "ip80" /\ is_prime.i <= TrialLast /\ is_prime.n # is_prime.i
              THEN {is_prime.i} ELSE {})

\* C9: no % has divisor 0 in any run of the driver, and powmod is only
\* called with a modulus >= 3.
C9_NoDivisionByZero ==
  /\ pc # "sigfpe"
  /\ 0 \notin PendingDivisors
  /\ pc = "pm14" => powmod.m >= 3

\* powmod is entered for the third witness
C9_Witness ==
  /\ pc = "pm14"
  /\ powmod.base = Witness3
  /\ PendingDivisors = {is_prime.n}

\* C10: the u32 accumulator never wraps: it always equals the unbounded
\* number of primes counted so far, up to the whole word range.
C10_CountNeverWraps ==
  /\ main.count = cnt
  /\ cnt <= U32Max

\* the whole word range has been counted
C10_Witness ==
  /\ pc = "done"
  /\ LO = 0
  /\ HI = U32Max
  /\ cnt > TrialLast

====
